---- MODULE Spec2Model ----
(***************************************************************************)
(* A model of paper_summarizer.py (class PaperSummarizer): the chunker     *)
(* chunk_text, the selector retrieve_relevant_chunks, the backend call     *)
(* call_ollama and the pipeline summarize_paper.                           *)
(*                                                                         *)
(* A Python str is a sequence of one-character strings; a Python list is   *)
(* a sequence.  Python offsets are 0-based, TLA+ indices 1-based.          *)
(***************************************************************************)
EXTENDS Integers, Sequences, FiniteSets

VARIABLES
    ct_pc,           \* chunk_text: position ("idle", "clean", "loop", "append", "returned")
    text,            \* chunk_text: the parameter text, normalized from line 33 on
    chunk_size,      \* chunk_text: parameter
    overlap,         \* chunk_text: parameter
    start,           \* chunk_text: the cursor
    end,             \* chunk_text: end of the current slice (0 before the first iteration)
    chunk,           \* chunk_text: the current slice, before strip()
    chunks,          \* chunk_text: the list being built (its first MaxChunks entries)
    dropped,         \* chunk_text: TRUE once an append fell beyond the recorded entries
    covered,         \* history: the offset up to which the slices of the finished
                     \* iterations reach into the text
    rr_pc,           \* retrieve_relevant_chunks: position ("idle", "call", "returned")
    r_chunks,        \* retrieve_relevant_chunks: the parameter chunks
    top_k,           \* retrieve_relevant_chunks: the parameter top_k
    scored_chunks,   \* retrieve_relevant_chunks: the (score, chunk) list, sorted at line 77
    relevant_chunks, \* the list retrieve_relevant_chunks returns
    pc,              \* summarize_paper: position
    sp_text,         \* summarize_paper: the extracted text
    posts,           \* number of requests.post calls made by call_ollama
    error            \* the exception that ended summarize_paper ("none" when none)

vars == <<ct_pc, text, chunk_size, overlap, start, end, chunk, chunks, dropped, covered,
          rr_pc, r_chunks, top_k, scored_chunks, relevant_chunks,
          pc, sp_text, posts, error>>

ct_vars == <<ct_pc, text, chunk_size, overlap, start, end, chunk, chunks, dropped,
            covered>>
rr_vars == <<rr_pc, r_chunks, top_k, scored_chunks, relevant_chunks>>
sp_vars == <<pc, sp_text, posts, error>>

-----------------------------------------------------------------------------
(* Bounds of the model. *)

\* longest raw text handed to chunk_text when it is called on its own
MaxLen == 7
\* largest chunk_size when chunk_text is called on its own
MaxChunkSize == 6
\* largest overlap when chunk_text is called on its own
MaxOverlap == 6
\* how many appended chunks the variable chunks records
MaxChunks == 7
\* longest raw text in the runs whose termination is checked
FairMaxLen == 3
\* longest chunk list handed to retrieve_relevant_chunks when called on its own
MaxList == 3
\* top_k ranges over -MaxTopK .. MaxTopK
MaxTopK == 2
\* length of the long keyword-free chunk offered to retrieve_relevant_chunks
LongChunkLen == 1100
\* length of the long document offered to summarize_paper
LongTextLen == 700
\* length of the document of less than one chunk offered to summarize_paper
MidTextLen == 250

(* Program constants. *)

\* chunk_text's default chunk_size
DefaultChunkSize == 600
\* chunk_text's default overlap
DefaultOverlap == 100
\* score += len(chunk) / 1000
LengthDivisor == 1000
\* if len(text) < 100: raise
MinTextLen == 100
\* retrieve_relevant_chunks(chunks, top_k=4)
SummaryTopK == 4

-----------------------------------------------------------------------------
(* Python primitives. *)

Max(a, b) == IF a >= b THEN a ELSE b
Min(a, b) == IF a <= b THEN a ELSE b

\* the greatest element of a non-empty finite set of integers
SetMax(S) == CHOOSE x \in S : \A y \in S : y <= x

\* the 0-based offset Python's slicing turns the bound i of s[i:j] into
PyOffset(s, i) == IF i < 0 THEN Max(Len(s) + i, 0) ELSE Min(i, Len(s))

\* Python's s[i:j]: a negative offset counts from the end, then both are clamped
PySlice(s, i, j) ==
    LET lo == PyOffset(s, i)
        hi == PyOffset(s, j)
    IN  IF lo < hi THEN SubSeq(s, lo + 1, hi) ELSE << >>

\* the characters the regular expression \s matches
IsSpace(c) == c \in {" ", "\n", "\t"}

RECURSIVE LStrip(_)
LStrip(s) == IF s # << >> /\ IsSpace(s[1]) THEN LStrip(Tail(s)) ELSE s

RECURSIVE RStrip(_)
RStrip(s) ==
    IF s # << >> /\ IsSpace(s[Len(s)]) THEN RStrip(SubSeq(s, 1, Len(s) - 1)) ELSE s

\* str.strip()
Strip(s) == RStrip(LStrip(s))

\* re.sub(r'\s+', ' ', s): every maximal run of whitespace becomes one space
\* (the first character of the run is kept, as a space; the others go)
CollapseWS(s) ==
    LET marked == [i \in 1 .. Len(s) |->
                      <<IF IsSpace(s[i]) THEN " " ELSE s[i],
                        IsSpace(s[i]) /\ i > 1 /\ IsSpace(s[i - 1])>>]
        NotInsideRun(m) == ~m[2]
        kept == SelectSeq(marked, NotInsideRun)
    IN  [i \in 1 .. Len(kept) |-> kept[i][1]]

\* line 33: re.sub(r'\s+', ' ', text).strip()
Normalize(s) == Strip(CollapseWS(s))

\* s.rfind(c + ' '): the highest 0-based offset of the two characters, or -1
RFind(s, c) ==
    LET hits == {k \in 0 .. Len(s) - 2 : s[k + 1] = c /\ s[k + 2] = " "}
    IN  IF hits = {} THEN -1 ELSE SetMax(hits)

\* lines 42-46: max(chunk.rfind('. '), chunk.rfind('? '), chunk.rfind('! '))
LastSentence(c) == Max(RFind(c, "."), Max(RFind(c, "?"), RFind(c, "!")))

-----------------------------------------------------------------------------
(* chunk_text, lines 27-55. *)

\* line 36: end = min(start + chunk_size, len(text))
WindowEnd(t, cs, st) == Min(st + cs, Len(t))

\* line 47: last_sentence > chunk_size * 0.4
PastThreshold(ls, cs) == 10 * ls > 4 * cs

\* a variant of SnapTo that also takes the character after the space
SnapToFurther(st, ls) == st + ls + 3

\* line 48: end = start + last_sentence + 2
SnapTo(st, ls) == st + ls + 2

\* lines 36-49: the end of the slice that starts at st
SliceEnd(t, cs, st) ==
    LET e  == WindowEnd(t, cs, st)
        ls == LastSentence(PySlice(t, st, e))
    IN  IF e < Len(t) /\ PastThreshold(ls, cs) THEN SnapTo(st, ls) ELSE e

\* a variant of NextStart that resumes one character after the overlap
NextStartSkipping(e, ov) == e - ov + 1

\* line 53: start = end - overlap
NextStart(e, ov) == e - ov

\* lines 29-33: the locals are set and the text is cleaned
Clean ==
    /\ ct_pc = "clean"
    /\ text' = Normalize(text)
    /\ chunks' = << >>
    /\ start' = 0
    /\ ct_pc' = "loop"
    /\ UNCHANGED <<chunk_size, overlap, end, chunk, dropped, covered>>
    /\ UNCHANGED <<rr_vars, sp_vars>>

\* lines 35-49: the loop test holds; end and chunk are computed.  Below the
\* floor -(len(text) + overlap) the model follows the cursor no further: only a
\* configuration with overlap > chunk_size gets there, every slice is empty from
\* there on and the cursor keeps falling.
Slice ==
    /\ ct_pc = "loop"
    /\ start < Len(text)
    /\ start >= -(Len(text) + overlap)
    /\ end' = SliceEnd(text, chunk_size, start)
    /\ chunk' = PySlice(text, start, end')
    /\ ct_pc' = "append"
    /\ UNCHANGED <<text, chunk_size, overlap, start, chunks, dropped, covered>>
    /\ UNCHANGED <<rr_vars, sp_vars>>

\* lines 51-53: a non-blank chunk is appended stripped, and the cursor moves
AppendChunk ==
    /\ ct_pc = "append"
    /\ IF Strip(chunk) = << >>
         THEN UNCHANGED <<chunks, dropped>>
         ELSE IF Len(chunks) < MaxChunks
                THEN chunks' = Append(chunks, Strip(chunk)) /\ UNCHANGED dropped
                ELSE dropped' = TRUE /\ UNCHANGED chunks
    /\ covered' = IF chunk = << >> THEN covered ELSE Max(covered, PyOffset(text, end))
    /\ start' = NextStart(end, overlap)
    /\ ct_pc' = "loop"
    /\ UNCHANGED <<text, chunk_size, overlap, end, chunk>>
    /\ UNCHANGED <<rr_vars, sp_vars>>

\* lines 35 and 55: the loop test fails and chunks is returned
Return ==
    /\ ct_pc = "loop"
    /\ ~(start < Len(text))
    /\ ct_pc' = "returned"
    /\ UNCHANGED <<text, chunk_size, overlap, start, end, chunk, chunks, dropped, covered>>
    /\ UNCHANGED <<rr_vars, sp_vars>>

\* the raw texts chunk_text is called with
Alphabet == {"a", ".", " "}
RawTexts == UNION {[1 .. n -> Alphabet] : n \in 0 .. MaxLen}

\* a call chunk_text(text, chunk_size, overlap) with overlap >= 0 and chunk_size >= 1
ChunkInit ==
    /\ ct_pc = "clean"
    /\ text \in RawTexts
    /\ chunk_size \in 1 .. MaxChunkSize
    /\ overlap \in 0 .. MaxOverlap
    /\ start = 0 /\ end = 0 /\ chunk = << >> /\ chunks = << >> /\ dropped = FALSE
    /\ covered = 0
    /\ rr_pc = "idle" /\ r_chunks = << >> /\ top_k = 0
    /\ scored_chunks = << >> /\ relevant_chunks = << >>
    /\ pc = "idle" /\ sp_text = << >> /\ posts = 0 /\ error = "none"

ChunkNext == Clean \/ Slice \/ AppendChunk \/ Return

SpecChunk == ChunkInit /\ [][ChunkNext]_vars

\* chunk_text runs on one thread and nothing suspends it: it keeps stepping
FairChunkInit == ChunkInit /\ Len(text) <= FairMaxLen
FairChunk == FairChunkInit /\ [][ChunkNext]_vars /\ WF_vars(ChunkNext)

-----------------------------------------------------------------------------
(* retrieve_relevant_chunks, lines 57-78. *)

\* lines 60-65: keywords
Keywords == <<
    <<"a", "b", "s", "t", "r", "a", "c", "t">>,
    <<"i", "n", "t", "r", "o", "d", "u", "c", "t", "i", "o", "n">>,
    <<"m", "e", "t", "h", "o", "d">>,
    <<"a", "p", "p", "r", "o", "a", "c", "h">>,
    <<"r", "e", "s", "u", "l", "t">>,
    <<"f", "i", "n", "d", "i", "n", "g">>,
    <<"c", "o", "n", "c", "l", "u", "s", "i", "o", "n">>,
    <<"c", "o", "n", "t", "r", "i", "b", "u", "t", "i", "o", "n">>,
    <<"p", "r", "o", "p", "o", "s", "e">>,
    <<"s", "h", "o", "w">>,
    <<"d", "e", "m", "o", "n", "s", "t", "r", "a", "t", "e">>,
    <<"e", "x", "p", "e", "r", "i", "m", "e", "n", "t">>,
    <<"e", "v", "a", "l", "u", "a", "t", "i", "o", "n">>,
    <<"p", "e", "r", "f", "o", "r", "m", "a", "n", "c", "e">>,
    <<"r", "e", "s", "e", "a", "r", "c", "h">>,
    <<"s", "t", "u", "d", "y">>,
    <<"a", "n", "a", "l", "y", "s", "i", "s">>,
    <<"d", "a", "t", "a">>,
    <<"m", "o", "d", "e", "l">>
>>

UpperCase == <<"A", "B", "C", "D", "E", "F", "G", "H", "I", "J", "K", "L", "M", "N", "O", "P", "Q", "R", "S", "T", "U", "V", "W", "X", "Y", "Z">>
LowerCase == <<"a", "b", "c", "d", "e", "f", "g", "h", "i", "j", "k", "l", "m", "n", "o", "p", "q", "r", "s", "t", "u", "v", "w", "x", "y", "z">>

\* the upper-case letters and, for each, its lower-case letter
UpperSet == {UpperCase[k] : k \in 1 .. Len(UpperCase)}
LowerOf ==
    [c \in UpperSet |-> LowerCase[CHOOSE k \in 1 .. Len(UpperCase) : UpperCase[k] = c]]

\* line 69: chunk.lower(), on the letters A-Z
ToLower(s) == [i \in 1 .. Len(s) |-> IF s[i] \in UpperSet THEN LowerOf[s[i]] ELSE s[i]]

\* the letters a keyword begins with
FirstLetters == {Keywords[k][1] : k \in 1 .. Len(Keywords)}

\* kw stands in s from position i on
MatchAt(kw, s, i) ==
    /\ i + Len(kw) - 1 <= Len(s)
    /\ \A j \in 1 .. Len(kw) : s[i + j - 1] = kw[j]

\* line 71: keyword in chunk_lower, kw standing at one of the positions from
Contains(kw, s, from) == \E i \in from : MatchAt(kw, s, i)

\* line 71: sum(1 for keyword in keywords if keyword in chunk_lower); a keyword
\* can only stand where the first letter of a keyword stands
KeywordCount(c) ==
    LET chunk_lower == ToLower(c)
        from == {i \in 1 .. Len(c) : chunk_lower[i] \in FirstLetters}
    IN  Cardinality({k \in 1 .. Len(Keywords) : Contains(Keywords[k], chunk_lower, from)})

\* a variant of Score that adds the length undivided
ScoreUndivided(c) == KeywordCount(c) + Len(c)

\* lines 71-73: score = matches + len(chunk) / 1000, held in thousandths.  The
\* float the code computes orders chunks as this integer does, except that two
\* chunks whose lengths differ by a multiple of 1000 and whose exact scores are
\* equal may get floats one rounding apart; no input of the model is such a pair.
Score(c) == LengthDivisor * KeywordCount(c) + Len(c)

\* lines 67-74: scored_chunks before the sort
ScoredChunks(cs) == [i \in 1 .. Len(cs) |-> <<Score(cs[i]), cs[i]>>]

\* a variant of InsertKeepingOrder that puts x before the entries of equal score
InsertBeforeEquals(sorted, x) ==
    LET k == Cardinality({i \in 1 .. Len(sorted) : sorted[i][1] > x[1]})
    IN  SubSeq(sorted, 1, k) \o <<x>> \o SubSeq(sorted, k + 1, Len(sorted))

\* line 77: where the stable descending sort puts x among the entries that
\* precede it in the list: after every entry of greater or equal score
InsertKeepingOrder(sorted, x) ==
    LET k == Cardinality({i \in 1 .. Len(sorted) : sorted[i][1] >= x[1]})
    IN  SubSeq(sorted, 1, k) \o <<x>> \o SubSeq(sorted, k + 1, Len(sorted))

\* line 77: scored_chunks.sort(reverse=True, key=lambda x: x[0]), on the first n entries
RECURSIVE SortPrefix(_, _)
SortPrefix(sc, n) ==
    IF n = 0 THEN << >> ELSE InsertKeepingOrder(SortPrefix(sc, n - 1), sc[n])

SortByScore(sc) == SortPrefix(sc, Len(sc))

\* line 78: [chunk for _, chunk in scored_chunks[:top_k]]
TakeChunks(sorted, k) ==
    LET head == PySlice(sorted, 0, k)
    IN  [i \in 1 .. Len(head) |-> head[i][2]]

\* lines 67-78 as a function of the arguments
RetrieveRelevantChunks(cs, k) == TakeChunks(SortByScore(ScoredChunks(cs)), k)

\* lines 57-78: the call runs to its return
Retrieve ==
    /\ rr_pc = "call"
    /\ scored_chunks' = SortByScore(ScoredChunks(r_chunks))
    /\ relevant_chunks' = TakeChunks(scored_chunks', top_k)
    /\ rr_pc' = "returned"
    /\ UNCHANGED <<r_chunks, top_k>>
    /\ UNCHANGED <<ct_vars, sp_vars>>

\* the chunks retrieve_relevant_chunks is called with: "Data", "show", "no keys",
\* "model data" and a long chunk without keywords
LongChunk == [i \in 1 .. LongChunkLen |-> "x"]
SampleChunks == {
    <<"D", "a", "t", "a">>,
    <<"s", "h", "o", "w">>,
    <<"n", "o", " ", "k", "e", "y", "s">>,
    <<"m", "o", "d", "e", "l", " ", "d", "a", "t", "a">>,
    LongChunk
}
ChunkLists == UNION {[1 .. n -> SampleChunks] : n \in 0 .. MaxList}

\* a call retrieve_relevant_chunks(chunks, top_k)
RetrieveInit ==
    /\ rr_pc = "call"
    /\ r_chunks \in ChunkLists
    /\ top_k \in -MaxTopK .. MaxTopK
    /\ scored_chunks = << >> /\ relevant_chunks = << >>
    /\ ct_pc = "idle" /\ text = << >> /\ chunk_size = DefaultChunkSize
    /\ overlap = DefaultOverlap
    /\ start = 0 /\ end = 0 /\ chunk = << >> /\ chunks = << >> /\ dropped = FALSE
    /\ covered = 0
    /\ pc = "idle" /\ sp_text = << >> /\ posts = 0 /\ error = "none"

RetrieveNext == Retrieve

SpecRetrieve == RetrieveInit /\ [][RetrieveNext]_vars

-----------------------------------------------------------------------------
(* call_ollama, lines 80-100, and summarize_paper, lines 102-160. *)

\* n characters that repeat the characters of unit
Fill(n, unit) == [i \in 1 .. n |-> unit[((i - 1) % Len(unit)) + 1]]

\* the texts extraction yields: blank pages, one long word, short sentences; empty,
\* just below and at the minimum length, shorter and longer than one chunk
DocLens == {0, MinTextLen - 1, MinTextLen, MidTextLen, LongTextLen}
DocUnits == {<<"\n">>, <<"a">>, <<"a", "b", "c", "d", "e", ".", " ">>,
             <<"a", "b", "!", " ", "\n">>}
Docs == {Fill(n, u) : n \in DocLens, u \in DocUnits}

\* lines 108-116 (and 15-25): the text is extracted, or extraction raises
Extract ==
    /\ pc = "extract"
    /\ \/ /\ pc' = "error"
          /\ error' = "extract"
          /\ UNCHANGED sp_text
       \/ /\ \E d \in Docs : sp_text' = d
          /\ pc' = "check"
          /\ UNCHANGED error
    /\ UNCHANGED posts
    /\ UNCHANGED <<ct_vars, rr_vars>>

\* lines 118-119: if len(text) < 100: raise
CheckLength ==
    /\ pc = "check"
    /\ IF Len(sp_text) < MinTextLen
         THEN pc' = "error" /\ error' = "short"
         ELSE pc' = "chunk" /\ UNCHANGED error
    /\ UNCHANGED <<sp_text, posts>>
    /\ UNCHANGED <<ct_vars, rr_vars>>

\* line 123: chunks = self.chunk_text(text), with the default chunk_size and overlap
CallChunkText ==
    /\ pc = "chunk"
    /\ ct_pc = "idle"
    /\ ct_pc' = "clean"
    /\ text' = sp_text
    /\ chunk_size' = DefaultChunkSize
    /\ overlap' = DefaultOverlap
    /\ pc' = "chunking"
    /\ UNCHANGED <<start, end, chunk, chunks, dropped, covered>>
    /\ UNCHANGED <<sp_text, posts, error>>
    /\ UNCHANGED rr_vars

\* line 128: relevant_chunks = self.retrieve_relevant_chunks(chunks, top_k=4),
\* once chunk_text has returned
SelectChunks ==
    /\ pc = "chunking"
    /\ ct_pc = "returned"
    /\ r_chunks' = chunks
    /\ top_k' = SummaryTopK
    /\ scored_chunks' = SortByScore(ScoredChunks(chunks))
    /\ relevant_chunks' = RetrieveRelevantChunks(chunks, SummaryTopK)
    /\ rr_pc' = "returned"
    /\ pc' = "generate"
    /\ UNCHANGED <<sp_text, posts, error>>
    /\ UNCHANGED ct_vars

\* the outcomes of requests.post, raise_for_status and response.json()['response']
Outcomes == {"ok", "connection", "timeout", "backend"}

\* a variant of CallOllama that posts a second time after a timeout
CallOllamaRetrying ==
    /\ pc = "generate"
    /\ \E outcome \in Outcomes :
          /\ posts' = IF outcome = "timeout" THEN posts + 2 ELSE posts + 1
          /\ IF outcome = "ok"
               THEN pc' = "done" /\ UNCHANGED error
               ELSE pc' = "error" /\ error' = outcome
    /\ UNCHANGED sp_text
    /\ UNCHANGED <<ct_vars, rr_vars>>

\* lines 135-160 and 80-100: the prompt is built and posted once; the response is
\* returned, or the failure is raised as an Exception
CallOllama ==
    /\ pc = "generate"
    /\ \E outcome \in Outcomes :
          /\ posts' = posts + 1
          /\ IF outcome = "ok"
               THEN pc' = "done" /\ UNCHANGED error
               ELSE pc' = "error" /\ error' = outcome
    /\ UNCHANGED sp_text
    /\ UNCHANGED <<ct_vars, rr_vars>>

\* a call summarize_paper(file_path)
Init ==
    /\ pc = "extract" /\ sp_text = << >> /\ posts = 0 /\ error = "none"
    /\ ct_pc = "idle" /\ text = << >> /\ chunk_size = DefaultChunkSize
    /\ overlap = DefaultOverlap
    /\ start = 0 /\ end = 0 /\ chunk = << >> /\ chunks = << >> /\ dropped = FALSE
    /\ covered = 0
    /\ rr_pc = "idle" /\ r_chunks = << >> /\ top_k = 0
    /\ scored_chunks = << >> /\ relevant_chunks = << >>

Next ==
    \/ Extract
    \/ CheckLength
    \/ CallChunkText
    \/ Clean
    \/ Slice
    \/ AppendChunk
    \/ Return
    \/ SelectChunks
    \/ CallOllama

Spec == Init /\ [][Next]_vars

-----------------------------------------------------------------------------
(* The claims. *)

\* chunk_size > overlap >= 0 (every call of the model has overlap >= 0)
Valid == overlap < chunk_size

\* C1: for every text and every configuration with chunk_size > overlap >= 0,
\* chunk_text terminates: the loop is left and the chunk list is returned.
C1_Terminates == (ct_pc = "clean" /\ Valid) => <>(ct_pc = "returned")

\* C2: with overlap >= chunk_size the call is rejected before the loop runs:
\* no iteration of the loop body is ever executed.
C2_RejectedBeforeLoop == overlap >= chunk_size => ct_pc # "append"

\* C3: a text whose normalized form is non-empty and shorter than chunk_size,
\* with chunk_size > overlap >= 0, makes chunk_text return exactly one chunk,
\* the whole normalized text.
C3_ReturnsWholeText ==
    (/\ ct_pc = "clean"
     /\ Normalize(text) # << >>
     /\ Len(Normalize(text)) < chunk_size
     /\ Valid)
    => <>(ct_pc = "returned" /\ chunks = <<text>>)

C5_ChunkWithinSize ==
    /\ ct_pc = "append" => (end <= start + chunk_size /\ Len(chunk) <= chunk_size)
    /\ \A i \in 1 .. Len(chunks) : Len(chunks[i]) <= chunk_size

\* C5, its case: the end of the current slice was moved back to a sentence end,
\* after a chunk was appended
C5_Witness ==
    /\ ct_pc = "append"
    /\ end < WindowEnd(text, chunk_size, start)
    /\ chunk # << >>
    /\ chunks # << >>

\* C6: retrieve_relevant_chunks returns at most top_k chunks, none when
\* top_k <= 0, and every returned chunk comes from the input, no more often than
\* it occurs there.
C6_AtMostTopK ==
    rr_pc = "returned" =>
        /\ Len(relevant_chunks) <= Max(top_k, 0)
        /\ \A i \in 1 .. Len(relevant_chunks) :
              Cardinality({j \in 1 .. Len(relevant_chunks) :
                               relevant_chunks[j] = relevant_chunks[i]})
                <= Cardinality({j \in 1 .. Len(r_chunks) :
                                    r_chunks[j] = relevant_chunks[i]})

\* the orders of the input: the one-to-one maps of 1 .. n onto itself
Orders(n) == {p \in [1 .. n -> 1 .. n] : \A i, j \in 1 .. n : i # j => p[i] # p[j]}

\* C7: for top_k >= 0 the result is the first min(top_k, n) chunks of the input
\* put in descending order of score, chunks of equal score in their input order:
\* the sorted list pairs each chunk with its score and is some order p of the
\* input, descending in score and ascending in p among equal scores.
C7_StableDescending ==
    (rr_pc = "returned" /\ top_k >= 0) =>
        LET n == Len(r_chunks)
        IN  /\ Len(scored_chunks) = n
            /\ \A i \in 1 .. n : scored_chunks[i][1] = Score(scored_chunks[i][2])
            /\ \E p \in Orders(n) :
                  /\ \A i \in 1 .. n : scored_chunks[i][2] = r_chunks[p[i]]
                  /\ \A i, j \in 1 .. n :
                        i < j => \/ scored_chunks[i][1] > scored_chunks[j][1]
                                 \/ /\ scored_chunks[i][1] = scored_chunks[j][1]
                                    /\ p[i] < p[j]
                  /\ relevant_chunks = [i \in 1 .. Min(top_k, n) |-> r_chunks[p[i]]]

\* C7, its case: three chunks, two of them different with the same score, come
\* back cut to two and not in the order they were given
C7_Witness ==
    /\ rr_pc = "returned"
    /\ top_k = 2
    /\ Len(r_chunks) = 3
    /\ relevant_chunks # SubSeq(r_chunks, 1, 2)
    /\ scored_chunks[1][1] = scored_chunks[2][1]
    /\ scored_chunks[1][2] # scored_chunks[2][2]

\* C8: in the sorted list every chunk that holds a keyword stands before every
\* chunk that holds none.
C8_KeywordChunkFirst ==
    rr_pc = "returned" =>
        \A i, j \in 1 .. Len(scored_chunks) :
            (/\ KeywordCount(scored_chunks[i][2]) = 0
             /\ KeywordCount(scored_chunks[j][2]) >= 1) => j < i

\* C8, amended: in the sorted list every chunk that holds a keyword stands before
\* every chunk that holds none and is shorter than 1000 characters.
C8_KeywordChunkFirstShort ==
    rr_pc = "returned" =>
        \A i, j \in 1 .. Len(scored_chunks) :
            (/\ Len(scored_chunks[i][2]) < LengthDivisor
             /\ KeywordCount(scored_chunks[i][2]) = 0
             /\ KeywordCount(scored_chunks[j][2]) >= 1) => j < i

\* C8, its case: a short chunk without keywords was given before a chunk with a
\* keyword, and the sort has put the chunk with the keyword first
C8_Witness ==
    /\ rr_pc = "returned"
    /\ Len(r_chunks) >= 2
    /\ KeywordCount(r_chunks[1]) = 0
    /\ Len(r_chunks[1]) < LengthDivisor
    /\ KeywordCount(r_chunks[2]) >= 1
    /\ scored_chunks[1][2] # r_chunks[1]

\* C9: summarize_paper posts to the backend at most once, only after extraction,
\* chunking and selection are done, and not again after a failure; when
\* extraction fails or the text has fewer than 100 characters the request ends
\* in an error with no post.
C9_BackendAtMostOnce ==
    /\ posts <= 1
    /\ posts = 1 =>
          (/\ pc \in {"done", "error"}
           /\ ct_pc = "returned"
           /\ rr_pc = "returned"
           /\ Len(sp_text) >= MinTextLen
           /\ error \in {"none", "connection", "timeout", "backend"})
    /\ error \in {"extract", "short"} => (pc = "error" /\ posts = 0)
    /\ (pc \notin {"extract", "check"} /\ Len(sp_text) < MinTextLen) =>
          (pc = "error" /\ posts = 0)

\* C9, its case: the backend was posted to once, timed out, and the request
\* ended in that error
C9_Witness == pc = "error" /\ error = "timeout" /\ posts = 1

\* C10: with chunk_size > overlap >= 0, every iteration leaves the cursor
\* strictly greater than it found it.
C10_CursorAdvances == [][(ct_pc = "append" /\ Valid) => start' > start]_vars

====
